---- MODULE Spec2Model ----
(***************************************************************************)
(* Model of GltfImporter (src/src/import.rs): the two-phase resolution of  *)
(* the buffers and images of a parsed glTF document through the batch      *)
(* loader, and the single completion callback.                             *)
(*                                                                         *)
(* Strings, paths and byte vectors are sequences (of one-character strings *)
(* and of numbers 0..255); Option<T> is <<>> (None) or <<v>> (Some(v)).    *)
(***************************************************************************)
EXTENDS Integers, Sequences, FiniteSets, TLC

VARIABLES
    document,         \* the parsed document handed to import
    blob,             \* the optional binary chunk of the Gltf handed to import
    base,             \* the optional base directory handed to import
    wasm32,           \* the build target: cfg(target_arch = "wasm32")
    pc,               \* where the continuation chain of import stands
    imported_buffers, \* the buffer plan owned by the buffer-phase closure
    imported_images,  \* the image plan owned by the image-phase closure
    buffer_data,      \* what load_buffer_data handed to its on_done, if it did
    resolved_buffers, \* the mapping load_image_data holds while it waits
    image_planning,   \* how many times the image planning loop was entered
    blob_takes,       \* the buffer indices for which blob.take() was executed
    loader_calls,     \* every call of Loader::load so far: phase and paths
    loaded_bundles,   \* every bundle the loader delivered so far
    on_done_calls     \* every outcome handed to the caller's on_done so far

vars == <<document, blob, base, wasm32, pc, imported_buffers, imported_images,
          buffer_data, resolved_buffers, image_planning, blob_takes,
          loader_calls, loaded_bundles, on_done_calls>>

---------------------------------------------------------------------------
(* Option, Result and the error values of gltf::Error                      *)

None == <<>>
Some(v) == <<v>>
IsSome(o) == o # <<>>
Unwrap(o) == o[1]

Ok(v) == [ok |-> TRUE, val |-> v]
Err(e) == [ok |-> FALSE, err |-> e]

\* An error value: its kind, and the three fields of Error::BufferLength.
Error(kind) == [kind |-> kind, buffer |-> 0, expected |-> 0, actual |-> 0]
BufferLength(index, expected, actual) ==
    [kind |-> "BufferLength", buffer |-> index, expected |-> expected, actual |-> actual]

---------------------------------------------------------------------------
(* Strings                                                                 *)

StartsWith(s, p) == Len(s) >= Len(p) /\ SubSeq(s, 1, Len(p)) = p

\* The positions at which p occurs in s.
Occurrences(s, p) ==
    {i \in 1..(Len(s) - Len(p) + 1) : SubSeq(s, i, i + Len(p) - 1) = p}

Contains(s, p) == Occurrences(s, p) # {}

FirstOccurrence(s, p) ==
    CHOOSE i \in Occurrences(s, p) : \A j \in Occurrences(s, p) : i <= j

\* str::split: the segments of s between the successive occurrences of sep.
RECURSIVE Split(_, _)
Split(s, sep) ==
    IF ~Contains(s, sep) THEN <<s>>
    ELSE LET i == FirstOccurrence(s, sep)
         IN <<SubSeq(s, 1, i - 1)>> \o Split(SubSeq(s, i + Len(sep), Len(s)), sep)

\* Iterator::nth, counted from 0.
Nth(seq, n) == IF n + 1 <= Len(seq) THEN Some(seq[n + 1]) ELSE None

STR_colon == <<":">>
STR_data == <<"d", "a", "t", "a", ":">>
STR_base64 == <<";", "b", "a", "s", "e", "6", "4", ",">>
STR_file_slashes == <<"f", "i", "l", "e", ":", "/", "/">>
STR_file == <<"f", "i", "l", "e", ":">>
STR_http == <<"h", "t", "t", "p", ":">>
STR_https == <<"h", "t", "t", "p", "s", ":">>
STR_image_png == <<"i", "m", "a", "g", "e", "/", "p", "n", "g">>
STR_image_jpeg == <<"i", "m", "a", "g", "e", "/", "j", "p", "e", "g">>

---------------------------------------------------------------------------
(* Scheme::parse                                                           *)

SchemeData(media_type, payload) ==
    [tag |-> "Data", media_type |-> media_type, arg |-> payload]
SchemeFile(path) == [tag |-> "File", media_type |-> None, arg |-> path]
SchemeRelative == [tag |-> "Relative", media_type |-> None, arg |-> <<>>]
SchemeExternal(url) == [tag |-> "External", media_type |-> None, arg |-> url]
SchemeUnsupported == [tag |-> "Unsupported", media_type |-> None, arg |-> <<>>]

\* SchemeParse looking for "file:" before "file://".
SchemeParse_FileFirst(uri, wasm) ==
    IF Contains(uri, STR_colon) THEN
        IF StartsWith(uri, STR_data) THEN
            LET rest == SubSeq(uri, Len(STR_data) + 1, Len(uri))
                match0 == Nth(Split(rest, STR_base64), 0)
                match1 == Nth(Split(rest, STR_base64), 1)
            IN IF IsSome(match1) THEN SchemeData(Some(Unwrap(match0)), Unwrap(match1))
               ELSE IF IsSome(match0) THEN SchemeData(None, Unwrap(match0))
               ELSE SchemeUnsupported
        ELSE IF StartsWith(uri, STR_file) THEN
            IF wasm THEN SchemeUnsupported
            ELSE SchemeFile(SubSeq(uri, Len(STR_file) + 1, Len(uri)))
        ELSE IF StartsWith(uri, STR_http) \/ StartsWith(uri, STR_https) THEN
            SchemeExternal(uri)
        ELSE SchemeUnsupported
    ELSE SchemeRelative

SchemeParse(uri, wasm) ==
    IF Contains(uri, STR_colon) THEN
        IF StartsWith(uri, STR_data) THEN
            LET rest == SubSeq(uri, Len(STR_data) + 1, Len(uri))
                match0 == Nth(Split(rest, STR_base64), 0)
                match1 == Nth(Split(rest, STR_base64), 1)
            IN IF IsSome(match1) THEN SchemeData(Some(Unwrap(match0)), Unwrap(match1))
               ELSE IF IsSome(match0) THEN SchemeData(None, Unwrap(match0))
               ELSE SchemeUnsupported
        ELSE IF StartsWith(uri, STR_file_slashes) THEN
            IF wasm THEN SchemeUnsupported
            ELSE SchemeFile(SubSeq(uri, Len(STR_file_slashes) + 1, Len(uri)))
        ELSE IF StartsWith(uri, STR_file) THEN
            IF wasm THEN SchemeUnsupported
            ELSE SchemeFile(SubSeq(uri, Len(STR_file) + 1, Len(uri)))
        ELSE IF StartsWith(uri, STR_http) \/ StartsWith(uri, STR_https) THEN
            SchemeExternal(uri)
        ELSE SchemeUnsupported
    ELSE SchemeRelative

---------------------------------------------------------------------------
(* Paths: PathBuf::from keeps the string; Path::join appends a relative    *)
(* path after a separator and lets an absolute one replace the base.       *)

PathJoin(dir, p) ==
    IF StartsWith(p, <<"/">>) THEN p
    ELSE IF dir = <<>> \/ dir[Len(dir)] = "/" THEN dir \o p
    ELSE dir \o <<"/">> \o p

---------------------------------------------------------------------------
(* base64::decode over the standard alphabet                               *)

B64_ALPHABET ==
    <<"A", "B", "C", "D", "E", "F", "G", "H", "I", "J", "K", "L", "M",
      "N", "O", "P", "Q", "R", "S", "T", "U", "V", "W", "X", "Y", "Z",
      "a", "b", "c", "d", "e", "f", "g", "h", "i", "j", "k", "l", "m",
      "n", "o", "p", "q", "r", "s", "t", "u", "v", "w", "x", "y", "z",
      "0", "1", "2", "3", "4", "5", "6", "7", "8", "9", "+", "/">>

B64Valid(c) == \E i \in 1..64 : B64_ALPHABET[i] = c
B64Val(c) == (CHOOSE i \in 1..64 : B64_ALPHABET[i] = c) - 1

\* The symbols before the trailing padding.
RECURSIVE B64Unpadded(_)
B64Unpadded(s) ==
    IF Len(s) > 0 /\ s[Len(s)] = "=" THEN B64Unpadded(SubSeq(s, 1, Len(s) - 1))
    ELSE s

\* The bytes of a run of symbols without padding (complete groups of four,
\* then a last group of two or three).
RECURSIVE B64Bytes(_)
B64Bytes(s) ==
    IF Len(s) = 0 THEN <<>>
    ELSE IF Len(s) >= 4 THEN
        LET n == B64Val(s[1]) * 262144 + B64Val(s[2]) * 4096
                 + B64Val(s[3]) * 64 + B64Val(s[4])
        IN <<n \div 65536, (n \div 256) % 256, n % 256>>
           \o B64Bytes(SubSeq(s, 5, Len(s)))
    ELSE IF Len(s) = 3 THEN
        LET n == B64Val(s[1]) * 4096 + B64Val(s[2]) * 64 + B64Val(s[3])
        IN <<n \div 1024, (n \div 4) % 256>>
    ELSE LET n == B64Val(s[1]) * 64 + B64Val(s[2]) IN <<n \div 16>>

\* The bits of the last symbol that belong to no byte.
B64TrailingBits(s) ==
    IF Len(s) % 4 = 3 THEN B64Val(s[Len(s)]) % 4
    ELSE IF Len(s) % 4 = 2 THEN B64Val(s[Len(s)]) % 16
    ELSE 0

Base64Decode(s) ==
    LET body == B64Unpadded(s)
    IN IF Len(s) - Len(body) > 2
          \/ (\E i \in 1..Len(body) : ~B64Valid(body[i]))
          \/ Len(body) % 4 = 1
       THEN Err(Error("Base64"))
       ELSE IF B64TrailingBits(body) # 0 THEN Err(Error("Base64"))
       ELSE Ok(B64Bytes(body))

\* load_buffer_from_data_uri taking a payload that is not base64 for an
\* empty one.
load_buffer_from_data_uri_Lenient(base64) ==
    IF Base64Decode(base64).ok THEN Base64Decode(base64) ELSE Ok(<<>>)

load_buffer_from_data_uri(base64) == Base64Decode(base64)

---------------------------------------------------------------------------
(* The image codec: image::guess_format sniffs the leading signature;      *)
(* image::load_from_memory_with_format decodes bytes that carry the        *)
(* signature of the requested format and rejects all others.               *)

PNG_SIGNATURE == <<137, 80, 78, 71, 13, 10, 26, 10>>
JPEG_SIGNATURE == <<255, 216, 255>>

Signature(format) == IF format = "Png" THEN PNG_SIGNATURE ELSE JPEG_SIGNATURE

guess_format(encoded_image) ==
    IF StartsWith(encoded_image, PNG_SIGNATURE) THEN Some("Png")
    ELSE IF StartsWith(encoded_image, JPEG_SIGNATURE) THEN Some("Jpeg")
    ELSE None

load_from_memory_with_format(bytes, format) ==
    IF StartsWith(bytes, Signature(format))
    THEN Ok([format |-> format,
             pixels |-> SubSeq(bytes, Len(Signature(format)) + 1, Len(bytes))])
    ELSE Err(Error("Image"))

\* The arms of mime_type_to_image_format that fall back on sniffing.
GuessedFormat(guess) ==
    IF IsSome(guess) THEN Ok(Unwrap(guess))
    ELSE Err(Error("UnsupportedImageEncoding"))

\* mime_type_to_image_format sniffing first and falling back on the hint.
mime_type_to_image_format_SniffFirst(encoded_image, mime_type) ==
    IF IsSome(guess_format(encoded_image)) THEN Ok(Unwrap(guess_format(encoded_image)))
    ELSE IF IsSome(mime_type) /\ Unwrap(mime_type) = STR_image_png THEN Ok("Png")
    ELSE IF IsSome(mime_type) /\ Unwrap(mime_type) = STR_image_jpeg THEN Ok("Jpeg")
    ELSE Err(Error("UnsupportedImageEncoding"))

mime_type_to_image_format(encoded_image, mime_type) ==
    IF IsSome(mime_type) /\ Unwrap(mime_type) = STR_image_png THEN Ok("Png")
    ELSE IF IsSome(mime_type) /\ Unwrap(mime_type) = STR_image_jpeg THEN Ok("Jpeg")
    ELSE GuessedFormat(guess_format(encoded_image))

\* `?` on the format, then the decoder.
DecodeAs(bytes, encoded_format) ==
    IF ~encoded_format.ok THEN Err(encoded_format.err)
    ELSE load_from_memory_with_format(bytes, encoded_format.val)

load_image_from_buffer(buffer, mime_type) ==
    DecodeAs(buffer, mime_type_to_image_format(buffer, mime_type))

\* `?` on the decoded payload, then format detection and the decoder.
DecodeDataUri(encoded_image, mime_type) ==
    IF ~encoded_image.ok THEN Err(encoded_image.err)
    ELSE DecodeAs(encoded_image.val,
                  mime_type_to_image_format(encoded_image.val, mime_type))

load_image_from_data_uri(mime_type, base64) ==
    DecodeDataUri(Base64Decode(base64), mime_type)

---------------------------------------------------------------------------
(* The batch loader: a bundle maps each path to what loading it gave.      *)

FileOk(bytes) == [tag |-> "Ok", bytes |-> bytes]
FileIO == [tag |-> "IO", bytes |-> <<>>]
FileNotLoaded == [tag |-> "NotLoaded", bytes |-> <<>>]

\* Loaded::bytes(path): a path the bundle does not hold was not loaded.
Bytes(loaded, path) ==
    IF path \in DOMAIN loaded THEN loaded[path] ELSE FileNotLoaded

\* LoadedBytes passing an I/O error on as Error::Io on every target.
LoadedBytes_EveryTarget(r, wasm) ==
    IF r.tag = "Ok" THEN Ok(r.bytes)
    ELSE IF r.tag = "IO" THEN Err(Error("Io"))
    ELSE Err(Error("MissingBlob"))

\* The arms the importer applies to Loaded::bytes: an IOError::IO is passed
\* on as Error::Io on native builds, every other failure becomes
\* Error::MissingBlob.
LoadedBytes(r, wasm) ==
    IF r.tag = "Ok" THEN Ok(r.bytes)
    ELSE IF r.tag = "IO" /\ ~wasm THEN Err(Error("Io"))
    ELSE Err(Error("MissingBlob"))

\* LoaderLoad calling the loader once for every path.
LoaderLoad_PerResource(phase, paths) ==
    IF paths = <<>> THEN <<[phase |-> phase, paths |-> paths]>>
    ELSE [i \in 1..Len(paths) |-> [phase |-> phase, paths |-> <<paths[i]>>]]

\* The calls of Loader::load one dispatch makes.
LoaderLoad(phase, paths) == <<[phase |-> phase, paths |-> paths]>>

Range(seq) == {seq[i] : i \in 1..Len(seq)}

EmptyMap == [k \in {} |-> 0]
Insert(map, key, value) ==
    [k \in DOMAIN map \cup {key} |-> IF k = key THEN value ELSE map[k]]

---------------------------------------------------------------------------
(* load_buffer_data: planning                                              *)

BufferLoaded(index, data, length) ==
    [tag |-> "Loaded", index |-> index, data |-> data, path |-> <<>>, length |-> length]
BufferNeedsLoading(index, path, length) ==
    [tag |-> "NeedsLoading", index |-> index, data |-> <<>>, path |-> path, length |-> length]

\* The Scheme::Data arm: the decoded payload, or the return with its error.
BufferFromDataUri(data, buffer, index) ==
    IF data.ok THEN Ok(BufferLoaded(index, data.val, buffer.length))
    ELSE Err(data.err)

\* BufferFromScheme asking for a base directory for every fetched buffer.
BufferFromScheme_BaseForEveryFetch(scheme, buffer, index, dir) ==
    CASE scheme.tag = "Data" ->
           BufferFromDataUri(load_buffer_from_data_uri(scheme.arg), buffer, index)
      [] scheme.tag = "File" /\ IsSome(dir) ->
           Ok(BufferNeedsLoading(index, scheme.arg, buffer.length))
      [] scheme.tag = "Relative" /\ IsSome(dir) ->
           Ok(BufferNeedsLoading(index, PathJoin(Unwrap(dir), buffer.uri),
                                 buffer.length))
      [] scheme.tag = "External" /\ IsSome(dir) ->
           Ok(BufferNeedsLoading(index, scheme.arg, buffer.length))
      [] OTHER -> Err(Error("UnsupportedScheme"))

\* BufferFromScheme fetching a relative path as it stands when no base
\* directory is given.
BufferFromScheme_RelativeWithoutBase(scheme, buffer, index, dir) ==
    CASE scheme.tag = "Data" ->
           BufferFromDataUri(load_buffer_from_data_uri(scheme.arg), buffer, index)
      [] scheme.tag = "File" ->
           Ok(BufferNeedsLoading(index, scheme.arg, buffer.length))
      [] scheme.tag = "Relative" ->
           Ok(BufferNeedsLoading(index,
                                 IF IsSome(dir) THEN PathJoin(Unwrap(dir), buffer.uri)
                                 ELSE buffer.uri,
                                 buffer.length))
      [] scheme.tag = "External" ->
           Ok(BufferNeedsLoading(index, scheme.arg, buffer.length))
      [] OTHER -> Err(Error("UnsupportedScheme"))

\* The arms of the match on Scheme::parse(uri).
BufferFromScheme(scheme, buffer, index, dir) ==
    CASE scheme.tag = "Data" ->
           BufferFromDataUri(load_buffer_from_data_uri(scheme.arg), buffer, index)
      [] scheme.tag = "File" ->
           Ok(BufferNeedsLoading(index, scheme.arg, buffer.length))
      [] scheme.tag = "Relative" /\ IsSome(dir) ->
           Ok(BufferNeedsLoading(index, PathJoin(Unwrap(dir), buffer.uri),
                                 buffer.length))
      [] scheme.tag = "External" ->
           Ok(BufferNeedsLoading(index, scheme.arg, buffer.length))
      [] OTHER -> Err(Error("UnsupportedScheme"))

\* The Source::Bin arm: blob.take().
BufferFromBlob(blb, buffer, index) ==
    IF IsSome(blb) THEN Ok(BufferLoaded(index, Unwrap(blb), buffer.length))
    ELSE Err(Error("MissingBlob"))

\* The body of the planning loop for one buffer.
PlanBuffer(buffer, index, dir, wasm, blb) ==
    IF buffer.source = "Uri"
    THEN BufferFromScheme(SchemeParse(buffer.uri, wasm), buffer, index, dir)
    ELSE BufferFromBlob(blb, buffer, index)

\* BlobAfter with a blob that is read and left in place.
BlobAfter_NotTaken(buffer, blb) == blb

\* What blob.take() leaves in the blob, and the record of the takes.
BlobAfter(buffer, blb) == IF buffer.source = "Bin" THEN None ELSE blb
TakesAfter(buffer, index, takes) ==
    IF buffer.source = "Bin" THEN Append(takes, index) ELSE takes

\* The planning loop from buffer i on: it returns at the first error.
RECURSIVE PlanBuffersFrom(_, _, _, _, _, _, _)
RECURSIVE PlanBuffersStep(_, _, _, _, _, _, _, _)
PlanBuffersFrom(i, buffers, dir, wasm, blb, plan, takes) ==
    IF i > Len(buffers) THEN [err |-> None, plan |-> plan, takes |-> takes]
    ELSE PlanBuffersStep(PlanBuffer(buffers[i], i - 1, dir, wasm, blb),
                         i, buffers, dir, wasm, blb, plan,
                         TakesAfter(buffers[i], i - 1, takes))

PlanBuffersStep(r, i, buffers, dir, wasm, blb, plan, takes) ==
    IF ~r.ok THEN [err |-> Some(r.err), plan |-> plan, takes |-> takes]
    ELSE PlanBuffersFrom(i + 1, buffers, dir, wasm, BlobAfter(buffers[i], blb),
                         Append(plan, r.val), takes)

PlanBuffers(buffers, dir, wasm, blb) ==
    PlanBuffersFrom(1, buffers, dir, wasm, blb, <<>>, <<>>)

\* PendingPaths keeping one copy of a path that several entries share.
RECURSIVE PendingPaths_Distinct(_)
PendingPaths_Distinct(plan) ==
    IF plan = <<>> THEN <<>>
    ELSE IF plan[1].tag = "NeedsLoading"
            /\ plan[1].path \notin Range(PendingPaths_Distinct(Tail(plan)))
    THEN <<plan[1].path>> \o PendingPaths_Distinct(Tail(plan))
    ELSE PendingPaths_Distinct(Tail(plan))

\* PendingPaths asking for a path for every entry of the plan.
PendingPaths_EveryEntry(plan) == [i \in 1..Len(plan) |-> plan[i].path]

\* The paths of the pending entries of a plan, in plan order.
RECURSIVE PendingPaths(_)
PendingPaths(plan) ==
    IF plan = <<>> THEN <<>>
    ELSE (IF plan[1].tag = "NeedsLoading" THEN <<plan[1].path>> ELSE <<>>)
         \o PendingPaths(Tail(plan))

---------------------------------------------------------------------------
(* load_buffer_data: the completion of the batch                           *)

\* The bytes of one planned buffer.
BufferBytes(buffer, loaded, wasm) ==
    IF buffer.tag = "NeedsLoading" THEN LoadedBytes(Bytes(loaded, buffer.path), wasm)
    ELSE Ok(buffer.data)

\* Pad without the padding loop.
Pad_NoPadding(data) == data

\* Pad cutting the bytes down to a multiple of 4.
Pad_Truncating(data) == SubSeq(data, 1, Len(data) - (Len(data) % 4))

RECURSIVE Pad(_)
Pad(data) ==
    IF Len(data) % 4 # 0 THEN Pad(Append(data, 0)) ELSE data

\* ValidateBuffer comparing the length after padding.
ValidateBuffer_PadFirst(index, data, length) ==
    IF ~data.ok THEN Err(data.err)
    ELSE IF Len(Pad(data.val)) < length
         THEN Err(BufferLength(index, length, Len(Pad(data.val))))
         ELSE Ok(Pad(data.val))

\* Length validation and padding of one buffer.
ValidateBuffer(index, data, length) ==
    IF ~data.ok THEN Err(data.err)
    ELSE IF Len(data.val) < length
         THEN Err(BufferLength(index, length, Len(data.val)))
         ELSE Ok(Pad(data.val))

\* collect() into Result<LoadedBuffers>: stops at the first error.
RECURSIVE CollectBuffers(_, _, _, _)
RECURSIVE CollectBuffersStep(_, _, _, _, _)
CollectBuffers(plan, loaded, wasm, map) ==
    IF plan = <<>> THEN Ok(map)
    ELSE CollectBuffersStep(
             ValidateBuffer(plan[1].index, BufferBytes(plan[1], loaded, wasm),
                            plan[1].length),
             plan, loaded, wasm, map)

\* CollectBuffersStep going on after an error and reporting the last one.
CollectBuffersStep_LastError(r, plan, loaded, wasm, map) ==
    IF r.ok
    THEN CollectBuffers(Tail(plan), loaded, wasm, Insert(map, plan[1].index, r.val))
    ELSE IF CollectBuffers(Tail(plan), loaded, wasm, map).ok THEN Err(r.err)
    ELSE CollectBuffers(Tail(plan), loaded, wasm, map)

\* CollectBuffersStep leaving a failed buffer out of the mapping.
CollectBuffersStep_SkipFailed(r, plan, loaded, wasm, map) ==
    IF ~r.ok THEN CollectBuffers(Tail(plan), loaded, wasm, map)
    ELSE CollectBuffers(Tail(plan), loaded, wasm, Insert(map, plan[1].index, r.val))

CollectBuffersStep(r, plan, loaded, wasm, map) ==
    IF ~r.ok THEN Err(r.err)
    ELSE CollectBuffers(Tail(plan), loaded, wasm, Insert(map, plan[1].index, r.val))

---------------------------------------------------------------------------
(* load_image_data: planning                                               *)

ImageLoaded(index, data) ==
    [tag |-> "Loaded", index |-> index, data |-> data, path |-> <<>>,
     mime_type |-> None]
ImageNeedsLoading(index, path, mime_type) ==
    [tag |-> "NeedsLoading", index |-> index, data |-> <<>>, path |-> path,
     mime_type |-> mime_type]

\* A panic unwinds the call: it is no gltf::Error and reaches no callback.
Panic == Err(Error("panic"))

\* Option::or preferring its argument.
OptionOr_ArgumentFirst(a, b) == IF IsSome(b) THEN b ELSE a

\* Option::or
OptionOr(a, b) == IF IsSome(a) THEN a ELSE b

\* A decoded image as a plan entry, or the return with the decoding error.
ImageFromData(data, index) ==
    IF data.ok THEN Ok(ImageLoaded(index, data.val)) ELSE Err(data.err)

\* The arms of the match on Scheme::parse(uri).
ImageFromScheme(scheme, image, index, dir) ==
    CASE scheme.tag = "Data" ->
           ImageFromData(
               load_image_from_data_uri(
                   OptionOr(scheme.media_type, image.mime_type), scheme.arg),
               index)
      [] scheme.tag = "File" ->
           Ok(ImageNeedsLoading(index, scheme.arg, image.mime_type))
      [] scheme.tag = "Relative" /\ IsSome(dir) ->
           Ok(ImageNeedsLoading(index, PathJoin(Unwrap(dir), image.uri),
                                image.mime_type))
      [] scheme.tag = "External" ->
           Ok(ImageNeedsLoading(index, scheme.arg, image.mime_type))
      [] OTHER -> Err(Error("UnsupportedScheme"))

\* ImageFromView decoding the whole parent buffer.
ImageFromView_WholeBuffer(view, mime_type, index, buffers) ==
    IF view.buffer \notin DOMAIN buffers THEN Err(Error("MissingBlob"))
    ELSE IF view.offset + view.length > Len(buffers[view.buffer]) THEN Panic
    ELSE ImageFromData(load_image_from_buffer(buffers[view.buffer], mime_type), index)

\* The Source::View arm: the slice begin..end of the parent buffer panics
\* when end lies beyond the buffer.
ImageFromView(view, mime_type, index, buffers) ==
    IF view.buffer \notin DOMAIN buffers THEN Err(Error("MissingBlob"))
    ELSE IF view.offset + view.length > Len(buffers[view.buffer]) THEN Panic
    ELSE ImageFromData(
             load_image_from_buffer(
                 SubSeq(buffers[view.buffer], view.offset + 1,
                        view.offset + view.length),
                 mime_type),
             index)

\* PlanImage resolving an image URI also when no base directory is given.
PlanImage_BaseNotRequired(image, index, dir, wasm, buffers) ==
    IF image.source = "Uri"
    THEN ImageFromScheme(SchemeParse(image.uri, wasm), image, index, dir)
    ELSE ImageFromView(image.view, image.mime_type, index, buffers)

\* The body of the planning loop for one image.
PlanImage(image, index, dir, wasm, buffers) ==
    IF image.source = "Uri" /\ IsSome(dir)
    THEN ImageFromScheme(SchemeParse(image.uri, wasm), image, index, dir)
    ELSE IF image.source = "View"
    THEN ImageFromView(image.view, image.mime_type, index, buffers)
    ELSE Err(Error("ExternalReferenceInSliceImport"))

\* The planning loop from image i on: it returns at the first error.
RECURSIVE PlanImagesFrom(_, _, _, _, _, _)
RECURSIVE PlanImagesStep(_, _, _, _, _, _, _)
PlanImagesFrom(i, images, dir, wasm, buffers, plan) ==
    IF i > Len(images) THEN [err |-> None, plan |-> plan]
    ELSE PlanImagesStep(PlanImage(images[i], i - 1, dir, wasm, buffers),
                        i, images, dir, wasm, buffers, plan)

PlanImagesStep(r, i, images, dir, wasm, buffers, plan) ==
    IF ~r.ok THEN [err |-> Some(r.err), plan |-> plan]
    ELSE PlanImagesFrom(i + 1, images, dir, wasm, buffers, Append(plan, r.val))

PlanImages(images, dir, wasm, buffers) ==
    PlanImagesFrom(1, images, dir, wasm, buffers, <<>>)

---------------------------------------------------------------------------
(* load_image_data: the completion of the batch                            *)

\* The arms of the match on loaded.bytes(path) for a pending image.
ImageFromBytes(bytes, mime_type) ==
    IF bytes.ok THEN load_image_from_buffer(bytes.val, mime_type)
    ELSE Err(bytes.err)

\* The decoded image of one planned image.
ImageData(image, loaded, wasm) ==
    IF image.tag = "NeedsLoading"
    THEN ImageFromBytes(LoadedBytes(Bytes(loaded, image.path), wasm), image.mime_type)
    ELSE Ok(image.data)

\* collect() into Result<LoadedImages>: stops at the first error.
RECURSIVE CollectImages(_, _, _, _)
RECURSIVE CollectImagesStep(_, _, _, _, _)
CollectImages(plan, loaded, wasm, map) ==
    IF plan = <<>> THEN Ok(map)
    ELSE CollectImagesStep(ImageData(plan[1], loaded, wasm), plan, loaded, wasm, map)

\* CollectImagesStep going on after an error and reporting the last one.
CollectImagesStep_LastError(r, plan, loaded, wasm, map) ==
    IF r.ok
    THEN CollectImages(Tail(plan), loaded, wasm, Insert(map, plan[1].index, r.val))
    ELSE IF CollectImages(Tail(plan), loaded, wasm, map).ok THEN Err(r.err)
    ELSE CollectImages(Tail(plan), loaded, wasm, map)

CollectImagesStep(r, plan, loaded, wasm, map) ==
    IF ~r.ok THEN Err(r.err)
    ELSE CollectImages(Tail(plan), loaded, wasm, Insert(map, plan[1].index, r.val))

---------------------------------------------------------------------------
(* The continuations of import                                             *)

\* What a step leaves behind: the next position, the outcomes it hands to
\* the caller's on_done, the loader calls it makes, the image plan and the
\* resolved buffers it keeps for the completion of the image batch, and
\* whether it entered the image planning loop.
Effect(next, outcomes, calls, plan, buffers, planned) ==
    [pc |-> next, on_done |-> outcomes, calls |-> calls, plan |-> plan,
     buffers |-> buffers, image_planning |-> planned]

\* ImagesPlanned handing the pending paths planned so far to the loader
\* before it reports the planning error.
ImagesPlanned_LoadThenFail(p, buffers) ==
    IF IsSome(p.err) /\ Unwrap(p.err) = Error("panic")
    THEN Effect("Panicked", <<>>, <<>>, <<>>, None, 1)
    ELSE IF IsSome(p.err)
    THEN Effect("Done", <<Err(Unwrap(p.err))>>,
                LoaderLoad("images", PendingPaths(p.plan)), <<>>, None, 1)
    ELSE Effect("ImagesPending", <<>>,
                LoaderLoad("images", PendingPaths(p.plan)), p.plan,
                Some(buffers), 1)

\* load_image_data after its planning loop: the return with the planning
\* error, or the call of the loader with the pending paths.
ImagesPlanned(p, buffers) ==
    IF IsSome(p.err) /\ Unwrap(p.err) = Error("panic")
    THEN Effect("Panicked", <<>>, <<>>, <<>>, None, 1)
    ELSE IF IsSome(p.err)
    THEN Effect("Done", <<Err(Unwrap(p.err))>>, <<>>, <<>>, None, 1)
    ELSE Effect("ImagesPending", <<>>,
                LoaderLoad("images", PendingPaths(p.plan)), p.plan,
                Some(buffers), 1)

\* load_image_data up to and including its call of the loader.
LoadImageData(doc, dir, wasm, buffers) ==
    ImagesPlanned(PlanImages(doc.images, dir, wasm, buffers), buffers)

\* OnBufferData going on to the images whatever the buffer phase gave.
OnBufferData_IgnoreError(result, doc, dir, wasm) ==
    LoadImageData(doc, dir, wasm, IF result.ok THEN result.val ELSE EmptyMap)

\* The closure import hands to load_buffer_data.
OnBufferData(result, doc, dir, wasm) ==
    IF ~result.ok THEN Effect("Done", <<Err(result.err)>>, <<>>, <<>>, None, 0)
    ELSE LoadImageData(doc, dir, wasm, result.val)

\* OnImageData delivering the images without the buffers.
OnImageData_DropsBuffers(result, buffers, doc) ==
    IF ~result.ok THEN <<Err(result.err)>>
    ELSE <<Ok([images |-> result.val, buffers |-> EmptyMap, document |-> doc])>>

\* The closure import hands to load_image_data.
OnImageData(result, buffers, doc) ==
    IF ~result.ok THEN <<Err(result.err)>>
    ELSE <<Ok([images |-> result.val, buffers |-> buffers, document |-> doc])>>

\* BuffersPlanned starting the image phase without waiting for the batch.
BuffersPlanned_NoWait(p, doc, dir, wasm) ==
    IF IsSome(p.err) THEN OnBufferData(Err(Unwrap(p.err)), doc, dir, wasm)
    ELSE LoadImageData(doc, dir, wasm, EmptyMap)

\* load_buffer_data after its planning loop: the return with the planning
\* error through the closure of import, or the call of the loader.
BuffersPlanned(p, doc, dir, wasm) ==
    IF IsSome(p.err) THEN OnBufferData(Err(Unwrap(p.err)), doc, dir, wasm)
    ELSE Effect("BuffersPending", <<>>,
                LoaderLoad("buffers", PendingPaths(p.plan)), <<>>, None, 0)

---------------------------------------------------------------------------
(* The inputs                                                              *)

MaxBuffers == 2
MaxImages == 2

BYTES_3 == <<1, 2, 3>>
BYTES_JPEG == JPEG_SIGNATURE \o <<0>>

URI_relative_b == <<"b">>
URI_relative_i == <<"i">>
URI_http_b == STR_http \o <<"b">>
URI_https_i == STR_https \o <<"i">>
URI_file_b == STR_file \o <<"b">>
URI_ftp == <<"f", "t", "p", ":", "x">>
URI_data_3 == STR_data \o STR_base64 \o <<"A", "Q", "I", "D">>
URI_data_invalid == STR_data \o STR_base64 \o <<"!">>
URI_data_jpeg ==
    STR_data \o STR_image_jpeg \o STR_base64
    \o <<"/", "9", "j", "/", "A", "A", "=", "=">>

BufferBin(length) == [source |-> "Bin", uri |-> <<>>, length |-> length]
BufferUri(uri, length) == [source |-> "Uri", uri |-> uri, length |-> length]

BufferEntries ==
    {BufferBin(4),
     BufferUri(URI_relative_b, 4), BufferUri(URI_http_b, 2),
     BufferUri(URI_file_b, 4), BufferUri(URI_data_3, 2),
     BufferUri(URI_data_invalid, 2), BufferUri(URI_ftp, 2)}

NoView == [buffer |-> 0, offset |-> 0, length |-> 0]
ImageUri(uri, mime_type) ==
    [source |-> "Uri", uri |-> uri, mime_type |-> mime_type, view |-> NoView]
ImageView(buffer, offset, length, mime_type) ==
    [source |-> "View", uri |-> <<>>, mime_type |-> Some(mime_type),
     view |-> [buffer |-> buffer, offset |-> offset, length |-> length]]

ImageEntries ==
    {ImageView(0, 0, 4, STR_image_jpeg), ImageView(0, 2, 4, <<"x">>),
     ImageUri(URI_relative_i, None), ImageUri(URI_https_i, Some(STR_image_jpeg)),
     ImageUri(URI_data_jpeg, None), ImageUri(URI_ftp, None),
     ImageUri(URI_file_b, None)}

SeqsUpTo(S, n) == UNION {[1..k -> S] : k \in 0..n}

\* A validated document: every buffer view names a buffer of the document.
Documents ==
    {d \in [buffers : SeqsUpTo(BufferEntries, MaxBuffers),
            images : SeqsUpTo(ImageEntries, MaxImages)] :
        \A i \in 1..Len(d.images) :
            d.images[i].source = "View" => d.images[i].view.buffer < Len(d.buffers)}

Blobs == {None, Some(BYTES_3), Some(BYTES_JPEG)}
Bases == {None, Some(<<"d">>)}
FileResults == {FileOk(BYTES_3), FileOk(BYTES_JPEG), FileIO, FileNotLoaded}

\* The bundles the loader can deliver for a batch of paths.
Bundles(paths) == [Range(paths) -> FileResults]

---------------------------------------------------------------------------
(* The state machine                                                       *)

Init ==
    /\ document \in Documents
    /\ blob \in Blobs
    /\ base \in Bases
    /\ wasm32 \in BOOLEAN
    /\ pc = "Start"
    /\ imported_buffers = <<>>
    /\ imported_images = <<>>
    /\ buffer_data = None
    /\ resolved_buffers = None
    /\ image_planning = 0
    /\ blob_takes = <<>>
    /\ loader_calls = <<>>
    /\ loaded_bundles = <<>>
    /\ on_done_calls = <<>>

\* A step's effect on the position, the callback, the loader and the plan.
Continue(e) ==
    /\ pc' = e.pc
    /\ on_done_calls' = on_done_calls \o e.on_done
    /\ loader_calls' = loader_calls \o e.calls
    /\ imported_images' = e.plan
    /\ resolved_buffers' = e.buffers
    /\ image_planning' = image_planning + e.image_planning

ImportPlanned(p) ==
    /\ blob_takes' = p.takes
    /\ imported_buffers' = IF IsSome(p.err) THEN <<>> ELSE p.plan
    /\ buffer_data' = IF IsSome(p.err) THEN Some(Err(Unwrap(p.err))) ELSE None
    /\ Continue(BuffersPlanned(p, document, base, wasm32))

\* GltfImporter::import: buffer planning and the first call of the loader.
Import ==
    /\ pc = "Start"
    /\ ImportPlanned(PlanBuffers(document.buffers, base, wasm32, blob))
    /\ UNCHANGED <<document, blob, base, wasm32, loaded_bundles>>

BuffersCollected(result, loaded) ==
    /\ loaded_bundles' = Append(loaded_bundles, loaded)
    /\ buffer_data' = Some(result)
    /\ imported_buffers' = <<>>
    /\ Continue(OnBufferData(result, document, base, wasm32))

\* The loader completes the buffer batch: validation, padding, then the
\* closure of import, which plans the images and calls the loader again.
BuffersLoaded ==
    /\ pc = "BuffersPending"
    /\ \E loaded \in Bundles(loader_calls[Len(loader_calls)].paths) :
         BuffersCollected(CollectBuffers(imported_buffers, loaded, wasm32, EmptyMap),
                          loaded)
    /\ UNCHANGED <<document, blob, base, wasm32, blob_takes>>

\* The loader completes the image batch: decoding, then the last closure.
ImagesLoaded ==
    /\ pc = "ImagesPending"
    /\ \E loaded \in Bundles(loader_calls[Len(loader_calls)].paths) :
         /\ loaded_bundles' = Append(loaded_bundles, loaded)
         /\ on_done_calls' =
                on_done_calls
                \o OnImageData(CollectImages(imported_images, loaded, wasm32, EmptyMap),
                               Unwrap(resolved_buffers), document)
    /\ imported_images' = <<>>
    /\ resolved_buffers' = None
    /\ pc' = "Done"
    /\ UNCHANGED <<document, blob, base, wasm32, imported_buffers, buffer_data,
                   image_planning, blob_takes, loader_calls>>

Next == Import \/ BuffersLoaded \/ ImagesLoaded

Spec == Init /\ [][Next]_vars

---------------------------------------------------------------------------
(* Imports of one buffer of any length, from the blob or from a data URI   *)

MaxBlobLen == 5

URI_data_1 == STR_data \o STR_base64 \o <<"A", "Q", "=", "=">>
URI_data_2 == STR_data \o STR_base64 \o <<"A", "Q", "I", "=">>

PadBuffers ==
    {BufferBin(n) : n \in 0..MaxBlobLen}
    \cup {BufferUri(u, n) : u \in {URI_data_1, URI_data_2, URI_data_3},
                            n \in 0..MaxBlobLen}

PadDocuments == {[buffers |-> <<b>>, images |-> <<>>] : b \in PadBuffers}
PadBlobs == {None} \cup {Some(b) : b \in SeqsUpTo({0, 7}, MaxBlobLen)}

\* The state of import before its first step.
Fresh ==
    /\ pc = "Start"
    /\ imported_buffers = <<>>
    /\ imported_images = <<>>
    /\ buffer_data = None
    /\ resolved_buffers = None
    /\ image_planning = 0
    /\ blob_takes = <<>>
    /\ loader_calls = <<>>
    /\ loaded_bundles = <<>>
    /\ on_done_calls = <<>>

PadInit ==
    /\ document \in PadDocuments
    /\ blob \in PadBlobs
    /\ base = None
    /\ wasm32 \in BOOLEAN
    /\ Fresh

PadSpec == PadInit /\ [][Next]_vars

---------------------------------------------------------------------------
(* Imports of one buffer whose URI is any string made of a few tokens      *)

MaxTokens == 4

STR_QUJD == <<"Q", "U", "J", "D">>

UriTokens ==
    {STR_data, STR_base64, STR_QUJD, STR_image_png, STR_file, <<"/", "/">>,
     STR_http, STR_https, <<"x">>, STR_colon}

RECURSIVE Concat(_)
Concat(strings) ==
    IF strings = <<>> THEN <<>> ELSE strings[1] \o Concat(Tail(strings))

Uris == {Concat(tokens) : tokens \in SeqsUpTo(UriTokens, MaxTokens)}

ParseInit ==
    /\ document \in {[buffers |-> <<BufferUri(u, 0)>>, images |-> <<>>] : u \in Uris}
    /\ blob = None
    /\ base = Some(<<"d">>)
    /\ wasm32 \in BOOLEAN
    /\ Fresh

ParseSpec == ParseInit /\ [][Next]_vars

---------------------------------------------------------------------------
(* Imports of one image with any hint, from a buffer view, a fetched path  *)
(* or a data URI                                                           *)

BYTES_PNG == PNG_SIGNATURE \o <<0>>

B64_PNG == <<"i", "V", "B", "O", "R", "w", "0", "K", "G", "g", "o", "A">>
B64_JPEG == <<"/", "9", "j", "/", "A", "A", "=", "=">>
B64_3 == <<"A", "Q", "I", "D">>

Hints == {None, Some(STR_image_png), Some(STR_image_jpeg), Some(<<"x">>)}

\* Data URIs with the media type image/png, image/jpeg, an empty one and
\* none at all.
FormatDataUris ==
    {STR_data \o m \o p :
        m \in {STR_image_png \o STR_base64, STR_image_jpeg \o STR_base64,
               STR_base64, <<>>},
        p \in {B64_PNG, B64_JPEG, B64_3}}

FormatBlobs == {Some(BYTES_PNG), Some(BYTES_JPEG), Some(BYTES_3)}

FormatInputs ==
    {[document |-> [buffers |-> <<BufferBin(o + Len(Unwrap(b)))>>,
                    images |-> <<ImageView(0, o, Len(Unwrap(b)), Unwrap(h))>>],
      blob |-> Some([n \in 1..o |-> 0] \o Unwrap(b))] :
        b \in FormatBlobs, h \in Hints \ {None}, o \in {0, 1}}
    \cup
    {[document |-> [buffers |-> <<>>, images |-> <<ImageUri(u, h)>>],
      blob |-> None] : u \in FormatDataUris \cup {URI_relative_i}, h \in Hints}

FormatInit ==
    /\ \E input \in FormatInputs : document = input.document /\ blob = input.blob
    /\ base = Some(<<"d">>)
    /\ wasm32 \in BOOLEAN
    /\ Fresh

FormatSpec == FormatInit /\ [][Next]_vars

---------------------------------------------------------------------------
(* Properties                                                              *)

BufferIndices == 0..(Len(document.buffers) - 1)
ImageIndices == 0..(Len(document.images) - 1)

\* The import has come to rest: no code of it runs and no batch is awaited.
AtRest == pc \in {"Done", "Panicked"}

\* on_done was handed exactly this one outcome.
Delivered(outcome) == on_done_calls = <<outcome>>

\* The buffer phase has failed: load_buffer_data handed an error on.
BufferPhaseFailed == IsSome(buffer_data) /\ ~Unwrap(buffer_data).ok

\* The image phase was started: its planning loop was entered or its batch
\* was handed to the loader.
ImagePhaseStarted ==
    \/ image_planning > 0
    \/ \E k \in 1..Len(loader_calls) : loader_calls[k].phase = "images"

\* C1: on_done is invoked exactly once per import: never twice, and once the
\* import has come to rest (every dispatched batch completed) it has been
\* invoked, with a model or with an error.
C1_OnDoneExactlyOnce ==
    /\ Len(on_done_calls) <= 1
    /\ AtRest => Len(on_done_calls) = 1

\* C2: every outcome handed to on_done is an error or a model whose buffers
\* map has exactly the buffer indices of the document as its keys and whose
\* images map has exactly the image indices of the document as its keys.
C2_NoPartialModel ==
    \A k \in 1..Len(on_done_calls) :
        on_done_calls[k].ok =>
            /\ DOMAIN on_done_calls[k].val.buffers = BufferIndices
            /\ DOMAIN on_done_calls[k].val.images = ImageIndices

C2_Witness ==
    /\ Len(on_done_calls) = 1 /\ on_done_calls[1].ok
    /\ Len(document.buffers) = 2 /\ Len(document.images) = 2
    /\ Len(loader_calls[1].paths) = 1 /\ Len(loader_calls[2].paths) = 1

\* C3: in every model handed to on_done each resolved buffer has a length
\* that is a multiple of 4 and at least the length the document declares for
\* that buffer index.
C3_BufferLengths ==
    \A k \in 1..Len(on_done_calls) :
        on_done_calls[k].ok =>
            \A i \in DOMAIN on_done_calls[k].val.buffers :
                /\ Len(on_done_calls[k].val.buffers[i]) % 4 = 0
                /\ i \in BufferIndices
                /\ Len(on_done_calls[k].val.buffers[i])
                       >= document.buffers[i + 1].length

\* A model with a fetched buffer of 3 bytes, padded to 4.
C3_Witness ==
    /\ Len(on_done_calls) = 1 /\ on_done_calls[1].ok
    /\ \E i \in BufferIndices :
          /\ document.buffers[i + 1].uri = URI_http_b
          /\ on_done_calls[1].val.buffers[i] = BYTES_3 \o <<0>>

\* C4: if the buffer phase fails, the image phase is never started (no image
\* planning, no second call of the loader) and on_done receives the error of
\* the buffer phase.
C4_BufferFailureShortCircuits ==
    BufferPhaseFailed =>
        /\ ~ImagePhaseStarted
        /\ Len(loader_calls) <= 1
        /\ Delivered(Err(Unwrap(buffer_data).err))
        /\ pc = "Done"

\* The buffer phase failed after its batch completed, with images to load.
C4_Witness ==
    /\ BufferPhaseFailed
    /\ Len(loaded_bundles) = 1
    /\ Len(document.images) > 0

\* C5: the image phase starts only after the buffer batch has completed and
\* every buffer of the document has been validated, padded and inserted; the
\* mapping the image phase holds is that fully populated mapping.
C5_BuffersBeforeImages ==
    ImagePhaseStarted =>
        /\ Len(loaded_bundles) >= 1
        /\ loader_calls[1].phase = "buffers"
        /\ IsSome(buffer_data) /\ Unwrap(buffer_data).ok
        /\ DOMAIN Unwrap(buffer_data).val = BufferIndices
        /\ \A i \in BufferIndices :
              /\ Len(Unwrap(buffer_data).val[i]) % 4 = 0
              /\ Len(Unwrap(buffer_data).val[i]) >= document.buffers[i + 1].length
        /\ IsSome(resolved_buffers) => Unwrap(resolved_buffers) = Unwrap(buffer_data).val
        /\ \A k \in 1..Len(loader_calls) : loader_calls[k].phase = "images" => k = 2

\* The image batch is awaited with two resolved buffers, one of them fetched.
C5_Witness ==
    /\ pc = "ImagesPending"
    /\ Len(document.buffers) = 2
    /\ Len(loader_calls[1].paths) >= 1
    /\ IsSome(resolved_buffers)

\* The buffer plan of the import, as planning builds it.
BufferPlan == PlanBuffers(document.buffers, base, wasm32, blob).plan

\* The bytes obtained for the buffer at position i of the document, once
\* the buffer batch has completed.
Obtained(i) == BufferBytes(BufferPlan[i], loaded_bundles[1], wasm32)

Short(i) == Obtained(i).ok /\ Len(Obtained(i).val) < document.buffers[i].length
Sound(i) == Obtained(i).ok /\ Len(Obtained(i).val) >= document.buffers[i].length

\* C6: once the bytes of the buffers are obtained, a buffer whose bytes are
\* fewer than its declared length makes the import fail (on_done receives one
\* error and no model), and when length validation reaches it (no buffer
\* before it failed) the error is BufferLength with the buffer's index, the
\* declared length and the number of bytes obtained before padding.
C6_ShortBufferFails ==
    Len(loaded_bundles) >= 1 =>
        \A i \in 1..Len(document.buffers) :
            Short(i) =>
                /\ Len(on_done_calls) = 1
                /\ ~on_done_calls[1].ok
                /\ (\A j \in 1..(i - 1) : Sound(j)) =>
                       Delivered(Err(BufferLength(i - 1, document.buffers[i].length,
                                                  Len(Obtained(i).val))))

\* The second buffer declares 4 bytes and only 3 were obtained: padding
\* would have reached the declared length.
C6_Witness ==
    /\ Len(loaded_bundles) = 1
    /\ Len(document.buffers) = 2
    /\ Short(2)
    /\ Delivered(Err(BufferLength(1, 4, 3)))

BinPositions == {i \in 1..Len(document.buffers) : document.buffers[i].source = "Bin"}
FirstBin == CHOOSE i \in BinPositions : \A j \in BinPositions : i <= j
PlanningFailed == pc = "Done" /\ loader_calls = <<>>

\* C7: the blob is taken by the buffers whose source is the binary chunk, in
\* document order: the first of them gets the blob if one was supplied; a take
\* when no blob was supplied and every second take make the import fail with
\* MissingBlob; a blob no buffer claims is ignored.
C7_BlobSingleShot ==
    pc # "Start" =>
        /\ \A n \in 1..Len(blob_takes) :
              /\ blob_takes[n] + 1 \in BinPositions
              /\ Cardinality({b \in BinPositions : b < blob_takes[n] + 1}) = n - 1
        /\ (pc = "BuffersPending" /\ BinPositions # {}) =>
              /\ IsSome(blob)
              /\ blob_takes = <<FirstBin - 1>>
              /\ imported_buffers[FirstBin].tag = "Loaded"
              /\ imported_buffers[FirstBin].data = Unwrap(blob)
        /\ (blob = None /\ blob_takes # <<>>) => Delivered(Err(Error("MissingBlob")))
        /\ Len(blob_takes) >= 2 => Delivered(Err(Error("MissingBlob")))
        /\ (\A i \in 1..Len(document.buffers) : i <= 2 => i \in BinPositions)
           /\ Len(document.buffers) >= 2
              => Delivered(Err(Error("MissingBlob")))
        /\ BinPositions = {} =>
              /\ blob_takes = <<>>
              /\ PlanningFailed => on_done_calls[1].err.kind # "MissingBlob"

\* A blob was supplied and a second buffer claimed it.
C7_Witness ==
    /\ IsSome(blob)
    /\ Len(blob_takes) = 2
    /\ Delivered(Err(Error("MissingBlob")))

PendingPositions(plan) == {i \in 1..Len(plan) : plan[i].tag = "NeedsLoading"}

\* The paths of a loader call are those of the pending entries of the plan.
CallMatchesPlan(call, plan) ==
    /\ Len(call.paths) = Cardinality(PendingPositions(plan))
    /\ \A q \in Range(call.paths) : \E i \in PendingPositions(plan) : plan[i].path = q
    /\ \A i \in PendingPositions(plan) : plan[i].path \in Range(call.paths)

\* Every buffer is the binary chunk or a data URI, every image a buffer view
\* or a data URI.
AllInline ==
    /\ \A i \in 1..Len(document.buffers) :
          \/ document.buffers[i].source = "Bin"
          \/ StartsWith(document.buffers[i].uri, STR_data)
    /\ \A i \in 1..Len(document.images) :
          \/ document.images[i].source = "View"
          \/ StartsWith(document.images[i].uri, STR_data)

\* C8 as claimed: the loader is called in a phase only if the plan of that
\* phase has a pending entry, so every call of the loader carries a path.
C8_LoaderOnlyWithPending ==
    \A k \in 1..Len(loader_calls) : loader_calls[k].paths # <<>>

\* C8 as amended: a path is handed to the loader only for a pending entry;
\* the loader is called once in every phase whose planning succeeds, with
\* exactly the paths of the pending entries, which is the empty list when
\* nothing is pending: for a document without buffers and images, or with
\* inline entries only, every call of the loader carries no path.
C8_PathsOnlyForPending ==
    /\ pc = "BuffersPending" =>
          /\ Len(loader_calls) = 1
          /\ loader_calls[1].phase = "buffers"
          /\ CallMatchesPlan(loader_calls[1], imported_buffers)
    /\ pc = "ImagesPending" =>
          /\ Len(loader_calls) = 2
          /\ loader_calls[2].phase = "images"
          /\ CallMatchesPlan(loader_calls[2], imported_images)
    /\ (\E k \in 1..Len(on_done_calls) : on_done_calls[k].ok) => Len(loader_calls) = 2
    /\ AllInline => \A k \in 1..Len(loader_calls) : loader_calls[k].paths = <<>>

\* A model from inline entries only: the loader was called twice, with no path.
C8_Witness ==
    /\ AllInline
    /\ Len(document.buffers) > 0 /\ Len(document.images) > 0
    /\ Len(on_done_calls) = 1 /\ on_done_calls[1].ok
    /\ Len(loader_calls) = 2
    /\ loader_calls[1].paths = <<>> /\ loader_calls[2].paths = <<>>

\* C9: the loader is called at most twice during an import and at most once
\* in each phase, whatever the number of pending entries.
C9_AtMostOneCallPerPhase ==
    /\ Len(loader_calls) <= 2
    /\ \A j, k \in 1..Len(loader_calls) :
          loader_calls[j].phase = loader_calls[k].phase => j = k

\* Two pending buffers and two pending images went out in two batches.
C9_Witness ==
    /\ Len(loader_calls) = 2
    /\ Len(loader_calls[1].paths) = 2
    /\ Len(loader_calls[2].paths) = 2

Min(S) == CHOOSE i \in S : \A j \in S : i <= j

\* The blob as the planning of buffer i finds it when every buffer before
\* it has been planned.
BlobAt(i) ==
    IF \E j \in 1..(i - 1) : document.buffers[j].source = "Bin" THEN None ELSE blob

\* What planning makes of the buffer at position i of the document.
BufferPlanning(i) == PlanBuffer(document.buffers[i], i - 1, base, wasm32, BlobAt(i))

\* What the import makes of the buffer at position i taken alone: its
\* planning error, or else the result of its fetch and validation. A pending
\* buffer whose batch has not completed is not known to fail.
BufferOutcomeOf(p, i) ==
    IF ~p.ok THEN p
    ELSE IF p.val.tag = "NeedsLoading" /\ loaded_bundles = <<>> THEN Ok(<<>>)
    ELSE IF p.val.tag = "NeedsLoading"
    THEN ValidateBuffer(i - 1, BufferBytes(p.val, loaded_bundles[1], wasm32),
                        document.buffers[i].length)
    ELSE ValidateBuffer(i - 1, Ok(p.val.data), document.buffers[i].length)

BufferOutcome(i) == BufferOutcomeOf(BufferPlanning(i), i)

FailingBuffers == {i \in 1..Len(document.buffers) : ~BufferOutcome(i).ok}
PlanFailingBuffers == {i \in 1..Len(document.buffers) : ~BufferPlanning(i).ok}

\* The image phase has failed: the buffers were resolved and on_done
\* received an error.
ImagePhaseFailed ==
    /\ IsSome(buffer_data) /\ Unwrap(buffer_data).ok
    /\ Len(on_done_calls) = 1 /\ ~on_done_calls[1].ok

\* What planning makes of the image at position i of the document.
ImagePlanning(i) ==
    PlanImage(document.images[i], i - 1, base, wasm32, Unwrap(buffer_data).val)

\* What the import makes of the image at position i taken alone.
ImageOutcomeOf(p, i) ==
    IF ~p.ok THEN p
    ELSE IF p.val.tag = "NeedsLoading" /\ Len(loaded_bundles) < 2 THEN Ok(<<>>)
    ELSE IF p.val.tag = "NeedsLoading" THEN ImageData(p.val, loaded_bundles[2], wasm32)
    ELSE Ok(p.val.data)

ImageOutcome(i) == ImageOutcomeOf(ImagePlanning(i), i)

FailingImages == {i \in 1..Len(document.images) : ~ImageOutcome(i).ok}
PlanFailingImages == {i \in 1..Len(document.images) : ~ImagePlanning(i).ok}

\* C10 as claimed: the error of a failed import is that of the entry with the
\* lowest document position among the entries of the failing phase that fail,
\* at planning, at fetch, at length validation or at decoding.
C10_FirstInDocumentOrder ==
    /\ BufferPhaseFailed =>
          /\ FailingBuffers # {}
          /\ Unwrap(buffer_data).err = BufferOutcome(Min(FailingBuffers)).err
    /\ ImagePhaseFailed =>
          /\ FailingImages # {}
          /\ on_done_calls[1].err = ImageOutcome(Min(FailingImages)).err

\* C10 as amended: the error of a failed import is the first one in the order
\* of execution. The planning of a phase runs over all its entries before
\* anything is fetched or validated: if an entry of the failing phase fails at
\* planning, the planning error of the lowest such entry is delivered and the
\* loader is not called in that phase; otherwise the error of the lowest entry
\* failing at fetch, length validation or decoding is delivered.
C10_FirstInExecutionOrder ==
    /\ BufferPhaseFailed =>
          /\ Delivered(Err(Unwrap(buffer_data).err))
          /\ FailingBuffers # {}
          /\ IF PlanFailingBuffers # {}
             THEN /\ Unwrap(buffer_data).err = BufferPlanning(Min(PlanFailingBuffers)).err
                  /\ loader_calls = <<>>
             ELSE /\ Unwrap(buffer_data).err = BufferOutcome(Min(FailingBuffers)).err
                  /\ Len(loader_calls) = 1
    /\ ImagePhaseFailed =>
          /\ FailingImages # {}
          /\ IF PlanFailingImages # {}
             THEN /\ on_done_calls[1].err = ImagePlanning(Min(PlanFailingImages)).err
                  /\ Len(loader_calls) = 1
             ELSE /\ on_done_calls[1].err = ImageOutcome(Min(FailingImages)).err
                  /\ Len(loader_calls) = 2

\* The first buffer fails at length validation, the second at planning: the
\* planning error of the second is the one delivered.
C10_Witness ==
    /\ BufferPhaseFailed
    /\ Len(document.buffers) = 2
    /\ BufferPlanning(1).ok /\ ~BufferOutcome(1).ok
    /\ ~BufferPlanning(2).ok
    /\ Delivered(Err(BufferPlanning(2).err))
    /\ BufferPlanning(2).err # BufferOutcome(1).err

\* Two buffers fail after the batch completed: the error of the first is
\* the one delivered.
C10_WitnessFetch ==
    /\ BufferPhaseFailed
    /\ PlanFailingBuffers = {}
    /\ FailingBuffers = {1, 2}
    /\ BufferOutcome(1).err # BufferOutcome(2).err
    /\ Delivered(Err(BufferOutcome(1).err))

UriImages == {i \in 1..Len(document.images) : document.images[i].source = "Uri"}

\* C11: without a base directory, once image planning has run, a document
\* with an image declared by URI (relative, http/https, file or data) never
\* yields a model, and when planning reaches the first such image (the
\* buffer-view images before it were planned) on_done receives
\* ExternalReferenceInSliceImport and the loader is not called for the
\* images; a document whose images are all buffer views never fails with
\* that error.
C11_UriImageNeedsBase ==
    (base = None /\ image_planning > 0) =>
        /\ UriImages # {} =>
              /\ \A k \in 1..Len(on_done_calls) : ~on_done_calls[k].ok
              /\ (\A j \in 1..(Min(UriImages) - 1) : ImagePlanning(j).ok) =>
                    /\ Delivered(Err(Error("ExternalReferenceInSliceImport")))
                    /\ Len(loader_calls) = 1
        /\ UriImages = {} =>
              \A k \in 1..Len(on_done_calls) :
                  \/ on_done_calls[k].ok
                  \/ on_done_calls[k].err.kind # "ExternalReferenceInSliceImport"

\* No base directory, a buffer-view image that decodes and then an image
\* by data URI: the import fails at the second image.
C11_Witness ==
    /\ base = None
    /\ Len(document.images) = 2
    /\ document.images[1].source = "View"
    /\ document.images[2].source = "Uri"
    /\ StartsWith(document.images[2].uri, STR_data)
    /\ Delivered(Err(Error("ExternalReferenceInSliceImport")))

\* The classification of the URI of the buffer at position i.
BufferScheme(i) == SchemeParse(document.buffers[i].uri, wasm32)

\* Planning reaches the buffer at position i: every buffer before it was
\* planned.
PlanningReachesBuffer(i) == \A j \in 1..(i - 1) : BufferPlanning(j).ok

\* C12: a buffer with a relative URI that planning reaches is planned as a
\* pending fetch at base.join(uri) when a base directory is given (and that
\* path is in the batch handed to the loader) and makes the import fail
\* with UnsupportedScheme when none is given; a buffer whose URI classifies
\* as Unsupported always makes the import fail with UnsupportedScheme.
C12_RelativeBufferNeedsBase ==
    pc # "Start" =>
        \A i \in 1..Len(document.buffers) :
            (document.buffers[i].source = "Uri" /\ PlanningReachesBuffer(i)) =>
                /\ (BufferScheme(i).tag = "Relative" /\ IsSome(base)) =>
                      /\ pc = "BuffersPending" =>
                            imported_buffers[i] =
                                BufferNeedsLoading(
                                    i - 1,
                                    PathJoin(Unwrap(base), document.buffers[i].uri),
                                    document.buffers[i].length)
                      /\ PlanFailingBuffers = {} =>
                            PathJoin(Unwrap(base), document.buffers[i].uri)
                                \in Range(loader_calls[1].paths)
                /\ (BufferScheme(i).tag = "Relative" /\ base = None) =>
                      Delivered(Err(Error("UnsupportedScheme")))
                /\ BufferScheme(i).tag = "Unsupported" =>
                      Delivered(Err(Error("UnsupportedScheme")))

\* A relative buffer waits for its bytes at the base directory joined with
\* its URI.
C12_Witness ==
    /\ pc = "BuffersPending"
    /\ base = Some(<<"d">>)
    /\ Len(document.buffers) = 2
    /\ document.buffers[2].uri = URI_relative_b
    /\ imported_buffers[2].path = <<"d", "/", "b">>
    /\ loader_calls[1].paths[Len(loader_calls[1].paths)] = <<"d", "/", "b">>

\* What the bundle of the buffer batch holds for the pending buffer at
\* position i, and what the bundle of the image batch holds for the pending
\* image at position i.
BufferFetch(i) == Bytes(loaded_bundles[1], BufferPlan[i].path)
ImageFetch(i) == Bytes(loaded_bundles[2], ImagePlanning(i).val.path)

\* Aggregation reaches the pending buffer (image) at position i, no entry
\* before it having failed, and its path is absent from or erroring in the
\* bundle.
BufferFetchFailed(i) ==
    /\ Len(loaded_bundles) >= 1
    /\ BufferPlan[i].tag = "NeedsLoading"
    /\ BufferFetch(i).tag # "Ok"
    /\ \A j \in 1..(i - 1) : Sound(j)

ImageFetchFailed(i) ==
    /\ Len(loaded_bundles) = 2
    /\ ImagePlanning(i).val.tag = "NeedsLoading"
    /\ ImageFetch(i).tag # "Ok"
    /\ \A j \in 1..(i - 1) : ImageOutcome(j).ok

\* The error the importer makes of a failed fetch.
FetchError(fetch) ==
    IF fetch.tag = "IO" /\ ~wasm32 THEN Error("Io") ELSE Error("MissingBlob")

\* C13 as claimed: a pending buffer or image whose path is absent from, or
\* erroring in, the bundle makes the import fail with an I/O error.
C13_FetchFailureIsIo ==
    /\ \A i \in 1..Len(document.buffers) :
          BufferFetchFailed(i) => Delivered(Err(Error("Io")))
    /\ \A i \in 1..Len(document.images) :
          ImageFetchFailed(i) => Delivered(Err(Error("Io")))

\* C13 as amended: a pending buffer or image that aggregation reaches and
\* whose path is absent from, or erroring in, the bundle makes the import
\* fail: with Io when the loader reports an I/O error for the path on a
\* native target, with MissingBlob when the path is absent from the bundle
\* and, on wasm32, for every error of the loader.
C13_FetchFailureIsIoOrMissingBlob ==
    /\ \A i \in 1..Len(document.buffers) :
          BufferFetchFailed(i) => Delivered(Err(FetchError(BufferFetch(i))))
    /\ \A i \in 1..Len(document.images) :
          ImageFetchFailed(i) => Delivered(Err(FetchError(ImageFetch(i))))

\* A pending image whose path the bundle does not hold: MissingBlob.
C13_Witness ==
    /\ Len(document.images) >= 1
    /\ ImageFetchFailed(1)
    /\ ImageFetch(1).tag = "NotLoaded"
    /\ ~wasm32
    /\ Delivered(Err(Error("MissingBlob")))

Zeros(k) == [n \in 1..k |-> 0]

\* The number of bytes missing to the next multiple of 4.
PaddingOf(data) == (4 - (Len(data) % 4)) % 4

\* C14: every resolved buffer consists of the obtained bytes, unchanged,
\* followed by the fewest zero bytes (0 to 3) that make its length a
\* multiple of 4, and the model delivered holds these buffers.
C14_PaddingOnlyAppends ==
    /\ (IsSome(buffer_data) /\ Unwrap(buffer_data).ok) =>
          \A i \in 1..Len(document.buffers) :
              Unwrap(buffer_data).val[i - 1] =
                  Obtained(i).val \o Zeros(PaddingOf(Obtained(i).val))
    /\ \A k \in 1..Len(on_done_calls) :
          on_done_calls[k].ok =>
              on_done_calls[k].val.buffers = Unwrap(buffer_data).val

\* A blob of 5 bytes ending in a zero is delivered with three more zeros.
C14_Witness ==
    /\ blob = Some(<<7, 0, 7, 7, 0>>)
    /\ Len(on_done_calls) = 1 /\ on_done_calls[1].ok
    /\ on_done_calls[1].val.buffers[0] = <<7, 0, 7, 7, 0, 0, 0, 0>>

\* The paths of a loader call are those of the pending entries of the plan,
\* one for each entry, in the order of the plan.
PathsInPlanOrder(call, plan) ==
    /\ Len(call.paths) = Cardinality(PendingPositions(plan))
    /\ \A i \in PendingPositions(plan) :
          call.paths[Cardinality({j \in PendingPositions(plan) : j <= i})]
              = plan[i].path

\* C15 as claimed: the paths handed to the loader in a phase hold each
\* pending path once.
C15_DistinctPaths ==
    \A k \in 1..Len(loader_calls) :
        \A m, n \in 1..Len(loader_calls[k].paths) :
            loader_calls[k].paths[m] = loader_calls[k].paths[n] => m = n

\* C15 as amended: the paths handed to the loader in a phase hold one path
\* for every pending entry, in plan order, so a path that several pending
\* entries share is repeated; each pending entry receives the bytes the
\* bundle holds for its path under its own index.
C15_OnePathPerPendingEntry ==
    /\ pc = "BuffersPending" => PathsInPlanOrder(loader_calls[1], imported_buffers)
    /\ pc = "ImagesPending" => PathsInPlanOrder(loader_calls[2], imported_images)
    /\ (IsSome(buffer_data) /\ Unwrap(buffer_data).ok) =>
          \A i \in 1..Len(document.buffers) :
              BufferPlan[i].tag = "NeedsLoading" =>
                  SubSeq(Unwrap(buffer_data).val[i - 1], 1,
                         Len(BufferFetch(i).bytes)) = BufferFetch(i).bytes
    /\ \A k \in 1..Len(on_done_calls) :
          on_done_calls[k].ok =>
              \A i \in 1..Len(document.images) :
                  ImagePlanning(i).val.tag = "NeedsLoading" =>
                      Ok(on_done_calls[k].val.images[i - 1]) =
                          load_image_from_buffer(ImageFetch(i).bytes,
                                                 document.images[i].mime_type)

\* Two buffers at the same relative path: the path went to the loader
\* twice and both buffers are in the model.
C15_Witness ==
    /\ Len(document.buffers) = 2
    /\ document.buffers[1].uri = URI_relative_b
    /\ document.buffers[2].uri = URI_relative_b
    /\ Len(loader_calls) = 2
    /\ loader_calls[1].paths = <<<<"d", "/", "b">>, <<"d", "/", "b">>>>
    /\ Len(on_done_calls) = 1 /\ on_done_calls[1].ok
    /\ on_done_calls[1].val.buffers[0] = on_done_calls[1].val.buffers[1]

\* C16: planning is fail-fast. When a buffer fails at planning, on_done
\* receives the planning error of the first such buffer, no buffer after it
\* is planned (none takes the blob), no plan is kept and the loader is never
\* called; when an image fails at planning with an error, on_done receives
\* the planning error of the first such image and the loader is not called
\* for the images, also when entries planned before were pending.
C16_PlanningFailFast ==
    /\ (pc # "Start" /\ PlanFailingBuffers # {}) =>
          /\ Delivered(Err(BufferPlanning(Min(PlanFailingBuffers)).err))
          /\ loader_calls = <<>>
          /\ imported_buffers = <<>>
          /\ image_planning = 0
          /\ \A n \in 1..Len(blob_takes) :
                blob_takes[n] + 1 <= Min(PlanFailingBuffers)
    /\ (image_planning > 0 /\ PlanFailingImages # {}
        /\ ImagePlanning(Min(PlanFailingImages)) # Panic) =>
          /\ Delivered(Err(ImagePlanning(Min(PlanFailingImages)).err))
          /\ Len(loader_calls) = 1
          /\ loader_calls[1].phase = "buffers"
          /\ imported_images = <<>>

\* The first image was planned as a pending fetch and the second fails at
\* planning: nothing is fetched for the images.
C16_Witness ==
    /\ image_planning > 0
    /\ Len(document.images) = 2
    /\ ImagePlanning(1).ok
    /\ ImagePlanning(1).val.tag = "NeedsLoading"
    /\ ~ImagePlanning(2).ok
    /\ Len(loader_calls) = 1
    /\ Delivered(Err(ImagePlanning(2).err))

\* C17: after a batch has completed the entries are taken in document order
\* and the error of the first entry that fails (fetch error, length
\* validation error of a buffer, format or decoding error of an image) is the
\* one handed on and delivered, also when later entries fail; after a
\* failure among the buffers no image is planned.
C17_AggregationStopsAtFirstFailure ==
    /\ (Len(loaded_bundles) >= 1 /\ FailingBuffers # {}) =>
          /\ buffer_data = Some(Err(BufferOutcome(Min(FailingBuffers)).err))
          /\ Delivered(Err(BufferOutcome(Min(FailingBuffers)).err))
          /\ image_planning = 0
    /\ (Len(loaded_bundles) = 2 /\ FailingImages # {}) =>
          Delivered(Err(ImageOutcome(Min(FailingImages)).err))
    /\ (Len(loaded_bundles) = 2 /\ FailingImages = {}) =>
          Len(on_done_calls) = 1 /\ on_done_calls[1].ok

\* Both fetched images fail, the first at its fetch and the second at its
\* decoding: the error of the first is delivered.
C17_Witness ==
    /\ Len(loaded_bundles) = 2
    /\ FailingImages = {1, 2}
    /\ ImageFetch(1).tag # "Ok"
    /\ ImageFetch(2).tag = "Ok"
    /\ ImageOutcome(1).err # ImageOutcome(2).err
    /\ Delivered(Err(ImageOutcome(1).err))

\* The URIs of the buffers of the document that start with "data:", and
\* what follows "data:" in them.
DataUriBuffers ==
    {i \in 1..Len(document.buffers) :
        /\ document.buffers[i].source = "Uri"
        /\ StartsWith(document.buffers[i].uri, STR_data)}

AfterData(i) ==
    SubSeq(document.buffers[i].uri, Len(STR_data) + 1, Len(document.buffers[i].uri))

BeforeSeparator(s) == SubSeq(s, 1, FirstOccurrence(s, STR_base64) - 1)
AfterSeparator(s) ==
    SubSeq(s, FirstOccurrence(s, STR_base64) + Len(STR_base64), Len(s))

\* C18: a URI that starts with "data:" and holds ";base64," classifies as
\* Data with the text before the first ";base64," as media type and the
\* whole text after that first occurrence as payload, and the buffer is
\* resolved from that payload.
C18_DataSplitsAtFirstSeparator ==
    \A i \in DataUriBuffers :
        (pc # "Start" /\ Contains(AfterData(i), STR_base64)) =>
            /\ BufferScheme(i) = SchemeData(Some(BeforeSeparator(AfterData(i))),
                                            AfterSeparator(AfterData(i)))
            /\ PlanningReachesBuffer(i) =>
                  IF Base64Decode(AfterSeparator(AfterData(i))).ok
                  THEN PlanFailingBuffers = {} =>
                          BufferPlan[i].data
                              = Base64Decode(AfterSeparator(AfterData(i))).val
                  ELSE Len(on_done_calls) = 1 /\ ~on_done_calls[1].ok

\* C19: a URI that starts with "data:" and holds no ";base64," followed by a
\* payload classifies as Unsupported, and the import of a buffer with such
\* a URI fails with UnsupportedScheme.
C19_DataWithoutPayloadUnsupported ==
    \A i \in DataUriBuffers :
        (pc # "Start" /\ ~Contains(AfterData(i), STR_base64)) =>
            /\ BufferScheme(i) = SchemeUnsupported
            /\ PlanningReachesBuffer(i) =>
                  Delivered(Err(Error("UnsupportedScheme")))

UriBuffers ==
    {i \in 1..Len(document.buffers) : document.buffers[i].source = "Uri"}

StripPrefix(s, p) == SubSeq(s, Len(p) + 1, Len(s))

\* The classification the claim gives to a URI that does not start with
\* "data:".
ClassOf(uri) ==
    IF ~Contains(uri, STR_colon) THEN SchemeRelative
    ELSE IF StartsWith(uri, STR_file_slashes)
    THEN (IF wasm32 THEN SchemeUnsupported
          ELSE SchemeFile(StripPrefix(uri, STR_file_slashes)))
    ELSE IF StartsWith(uri, STR_file)
    THEN (IF wasm32 THEN SchemeUnsupported ELSE SchemeFile(StripPrefix(uri, STR_file)))
    ELSE IF StartsWith(uri, STR_http) \/ StartsWith(uri, STR_https)
    THEN SchemeExternal(uri)
    ELSE SchemeUnsupported

\* The path a buffer of that classification is fetched from.
PathOf(class, uri) ==
    IF class.tag = "Relative" THEN PathJoin(Unwrap(base), uri) ELSE class.arg

\* C20: every URI has one classification. A URI without ':' is Relative;
\* one starting with "file://" or "file:" is File with that prefix stripped
\* (Unsupported on wasm32); one starting with "http:" or "https:" is
\* External with the whole URI; every other URI with a ':' that does not
\* start with "data:" is Unsupported; one starting with "data:" is Data or
\* Unsupported. The import of a buffer acts on that classification: it
\* fails with UnsupportedScheme or waits for the bytes of the classified
\* path.
C20_SchemeClassification ==
    \A i \in UriBuffers :
        pc # "Start" =>
            /\ BufferScheme(i).tag
                   \in {"Data", "File", "Relative", "External", "Unsupported"}
            /\ i \in DataUriBuffers => BufferScheme(i).tag \in {"Data", "Unsupported"}
            /\ i \notin DataUriBuffers =>
                  /\ BufferScheme(i) = ClassOf(document.buffers[i].uri)
                  /\ PlanningReachesBuffer(i) =>
                        IF ClassOf(document.buffers[i].uri).tag = "Unsupported"
                        THEN Delivered(Err(Error("UnsupportedScheme")))
                        ELSE PlanFailingBuffers = {} =>
                                /\ BufferPlan[i].tag = "NeedsLoading"
                                /\ BufferPlan[i].path =
                                       PathOf(ClassOf(document.buffers[i].uri),
                                              document.buffers[i].uri)
                                /\ BufferPlan[i].path \in Range(loader_calls[1].paths)

\* "file://x" on a native target: the buffer was fetched from "x".
C20_Witness ==
    /\ ~wasm32
    /\ Len(document.buffers) = 1
    /\ document.buffers[1].uri = STR_file \o <<"/", "/", "x">>
    /\ Len(loader_calls) >= 1
    /\ loader_calls[1].paths = <<<<"x">>>>
    /\ Len(loaded_bundles) >= 1

IsDataUriImage(i) ==
    document.images[i].source = "Uri" /\ StartsWith(document.images[i].uri, STR_data)

\* The hint that goes with the encoded bytes of the image at position i.
ImageHint(i) ==
    IF IsDataUriImage(i)
    THEN OptionOr(SchemeParse(document.images[i].uri, wasm32).media_type,
                  document.images[i].mime_type)
    ELSE document.images[i].mime_type

\* The encoded bytes of the image at position i, when the import has them:
\* the range of the resolved buffer, the decoded payload of the data URI or
\* the bytes the bundle holds for the path.
ImageEncoded(i) ==
    IF document.images[i].source = "View"
    THEN Ok(SubSeq(Unwrap(buffer_data).val[document.images[i].view.buffer],
                   document.images[i].view.offset + 1,
                   document.images[i].view.offset + document.images[i].view.length))
    ELSE IF IsDataUriImage(i)
    THEN Base64Decode(SchemeParse(document.images[i].uri, wasm32).arg)
    ELSE IF Len(loaded_bundles) = 2 /\ ImageFetch(i).tag = "Ok"
    THEN Ok(ImageFetch(i).bytes)
    ELSE Err(Error("none"))

\* The format the claim selects for bytes with a hint.
SelectedFormat(bytes, hint) ==
    IF hint = Some(STR_image_png) THEN "Png"
    ELSE IF hint = Some(STR_image_jpeg) THEN "Jpeg"
    ELSE IF StartsWith(bytes, PNG_SIGNATURE) THEN "Png"
    ELSE IF StartsWith(bytes, JPEG_SIGNATURE) THEN "Jpeg"
    ELSE "None"

\* The import of the only image of the document ended as the decoding of
\* its bytes in that format ends.
DecodedAs(bytes, format) ==
    IF format = "None" THEN Delivered(Err(Error("UnsupportedImageEncoding")))
    ELSE IF StartsWith(bytes, Signature(format))
    THEN /\ Len(on_done_calls) = 1 /\ on_done_calls[1].ok
         /\ on_done_calls[1].val.images[0].format = format
    ELSE Delivered(Err(Error("Image")))

\* C21: the format of an image is the one its hint names when the hint is
\* "image/png" or "image/jpeg", whatever the bytes are; with no hint or any
\* other hint it is the one the leading bytes give, PNG or JPEG; when neither
\* gives a format the import fails with UnsupportedImageEncoding. Stated of
\* the only image of a document, once the import has its encoded bytes.
C21_HintBeforeSniffing ==
    (/\ pc = "Done" /\ image_planning > 0 /\ Len(document.images) = 1
     /\ (document.images[1].source = "View" \/ IsSome(base))) =>
        (ImageEncoded(1).ok =>
            DecodedAs(ImageEncoded(1).val,
                      SelectedFormat(ImageEncoded(1).val, ImageHint(1))))

\* The hint says PNG and the bytes of the buffer view are a JPEG: the image
\* is handed to the PNG decoder, which rejects it.
C21_Witness ==
    /\ pc = "Done"
    /\ Len(document.images) = 1
    /\ document.images[1].source = "View"
    /\ document.images[1].mime_type = Some(STR_image_png)
    /\ blob = Some(BYTES_JPEG)
    /\ Delivered(Err(Error("Image")))

\* The decoding of the payload the classification gives for the data URI of
\* the buffer at position i.
DecodedPayload(i) == Base64Decode(BufferScheme(i).arg)

\* C22: a buffer with a data URI that planning reaches is resolved during
\* planning from the base64 decoding of its payload: it is in the plan as
\* loaded, it is not among the pending entries and no path handed to the
\* loader comes from it; when the payload is not valid base64 on_done
\* receives the Base64 error and the loader is not called.
C22_DataUriBufferDecodedInPlanning ==
    \A i \in DataUriBuffers :
        (pc # "Start" /\ PlanningReachesBuffer(i)) =>
            IF DecodedPayload(i).ok
            THEN /\ pc = "BuffersPending" =>
                       /\ imported_buffers[i] =
                              BufferLoaded(i - 1, DecodedPayload(i).val,
                                           document.buffers[i].length)
                       /\ Len(loader_calls[1].paths)
                              <= Len(document.buffers) - Cardinality(DataUriBuffers)
                 /\ \A k \in 1..Len(loader_calls) :
                       \A n \in 1..Len(loader_calls[k].paths) :
                           ~Contains(loader_calls[k].paths[n], STR_data)
                 /\ (IsSome(buffer_data) /\ Unwrap(buffer_data).ok) =>
                       SubSeq(Unwrap(buffer_data).val[i - 1], 1,
                              Len(DecodedPayload(i).val)) = DecodedPayload(i).val
            ELSE /\ Delivered(Err(Error("Base64")))
                 /\ loader_calls = <<>>

\* "data:;base64,x": the payload is not base64 and nothing is fetched.
C22_Witness ==
    /\ Len(document.buffers) = 1
    /\ document.buffers[1].uri = STR_data \o STR_base64 \o <<"x">>
    /\ Delivered(Err(Error("Base64")))
    /\ loader_calls = <<>>

ViewImages == {i \in 1..Len(document.images) : document.images[i].source = "View"}

\* The range of the view of the image at position i lies within its
\* resolved buffer.
ViewInRange(i) ==
    document.images[i].view.offset + document.images[i].view.length
        <= Len(Unwrap(buffer_data).val[document.images[i].view.buffer])

\* Image planning reaches the image at position i.
PlanningReachesImage(i) ==
    image_planning > 0 /\ \A j \in 1..(i - 1) : ImagePlanning(j).ok

\* What decoding makes of the bytes of the view of the image at position i.
DecodedView(i) ==
    load_image_from_buffer(ImageEncoded(i).val, document.images[i].mime_type)

C24_BuffersUnchangedByImagePhase ==
    /\ pc = "ImagesPending" =>
          /\ IsSome(buffer_data) /\ Unwrap(buffer_data).ok
          /\ resolved_buffers = Some(Unwrap(buffer_data).val)
    /\ \A k \in 1..Len(on_done_calls) :
          on_done_calls[k].ok =>
              /\ DOMAIN on_done_calls[k].val.buffers = DOMAIN Unwrap(buffer_data).val
              /\ \A b \in DOMAIN on_done_calls[k].val.buffers :
                    on_done_calls[k].val.buffers[b] = Unwrap(buffer_data).val[b]
              /\ on_done_calls[k].val.document = document

\* A model with two buffers and an image decoded from a view of the first.
C24_Witness ==
    /\ Len(on_done_calls) = 1 /\ on_done_calls[1].ok
    /\ Len(document.buffers) = 2
    /\ ViewImages # {}
    /\ DOMAIN on_done_calls[1].val.buffers = {0, 1}
    /\ on_done_calls[1].val.buffers[0] = BYTES_JPEG

\* C25: the range of every buffer-view image that image planning reaches
\* lies within its resolved buffer, so that the slice never goes out of
\* range and the import does not end without invoking on_done.
C25_ViewSliceInRange ==
    /\ \A i \in ViewImages :
          (PlanningReachesImage(i)
           /\ document.images[i].view.buffer \in DOMAIN Unwrap(buffer_data).val)
              => ViewInRange(i)
    /\ pc # "Panicked"

IsExternalUri(uri) == StartsWith(uri, STR_http) \/ StartsWith(uri, STR_https)
IsFileUri(uri) == StartsWith(uri, STR_file)

\* The path a file URI or a URL is fetched from.
FetchPath(uri) ==
    IF StartsWith(uri, STR_file_slashes) THEN StripPrefix(uri, STR_file_slashes)
    ELSE IF StartsWith(uri, STR_file) THEN StripPrefix(uri, STR_file)
    ELSE uri

\* Planning has reached the buffer at position i and no other buffer fails
\* at planning.
OnlyBufferInQuestion(i) ==
    pc # "Start" /\ \A j \in 1..Len(document.buffers) : j # i => BufferPlanning(j).ok

\* The buffer at position i was planned as a pending fetch of the path.
PlannedPending(i, path) ==
    /\ Len(loader_calls) >= 1
    /\ path \in Range(loader_calls[1].paths)
    /\ pc = "BuffersPending" =>
          imported_buffers[i] =
              BufferNeedsLoading(i - 1, path, document.buffers[i].length)

\* The buffer at position i was resolved during planning with the bytes.
PlannedLoaded(i, bytes) ==
    /\ Len(loader_calls) >= 1
    /\ pc = "BuffersPending" =>
          imported_buffers[i] = BufferLoaded(i - 1, bytes, document.buffers[i].length)

\* Without a base directory, a buffer by data URI or from the blob is
\* resolved and an image by URI fails with ExternalReferenceInSliceImport.
InlineBuffersAndUriImagesWithoutBase ==
    /\ \A i \in DataUriBuffers :
          (OnlyBufferInQuestion(i) /\ DecodedPayload(i).ok) =>
              PlannedLoaded(i, DecodedPayload(i).val)
    /\ \A i \in BinPositions :
          (OnlyBufferInQuestion(i) /\ i = FirstBin /\ IsSome(blob)) =>
              PlannedLoaded(i, Unwrap(blob))
    /\ \A i \in UriImages :
          (PlanningReachesImage(i) /\ \A j \in 1..(i - 1) : j \notin UriImages) =>
              Delivered(Err(Error("ExternalReferenceInSliceImport")))

\* C26 as claimed: without a base directory a buffer with an http/https URL
\* or a file URI is still planned as a pending fetch, a buffer by data URI
\* or from the blob is still resolved, and an image with such a URI fails
\* with ExternalReferenceInSliceImport.
C26_BuffersNeedNoBase ==
    base = None =>
        /\ \A i \in UriBuffers :
              (OnlyBufferInQuestion(i)
               /\ (IsExternalUri(document.buffers[i].uri)
                   \/ IsFileUri(document.buffers[i].uri))) =>
                  PlannedPending(i, FetchPath(document.buffers[i].uri))
        /\ InlineBuffersAndUriImagesWithoutBase

\* C26 as amended: without a base directory a buffer with an http/https URL
\* is still planned as a pending fetch, and so is a buffer with a file URI
\* on a native target, while on wasm32 a buffer with a file URI fails with
\* UnsupportedScheme (with or without a base directory); a buffer by data
\* URI or from the blob is still resolved, and an image with any such URI
\* fails with ExternalReferenceInSliceImport.
C26_BuffersNeedNoBaseButFileNeedsNative ==
    /\ base = None =>
          /\ \A i \in UriBuffers :
                (OnlyBufferInQuestion(i)
                 /\ (IsExternalUri(document.buffers[i].uri)
                     \/ (IsFileUri(document.buffers[i].uri) /\ ~wasm32))) =>
                    PlannedPending(i, FetchPath(document.buffers[i].uri))
          /\ InlineBuffersAndUriImagesWithoutBase
    /\ \A i \in UriBuffers :
          (pc # "Start" /\ PlanningReachesBuffer(i) /\ wasm32
           /\ IsFileUri(document.buffers[i].uri)) =>
              Delivered(Err(Error("UnsupportedScheme")))

\* No base directory on a native target: a buffer by URL and a buffer by
\* file URI were fetched, and the image by URL fails.
C26_Witness ==
    /\ base = None /\ ~wasm32
    /\ Len(document.buffers) = 2
    /\ document.buffers[1].uri = URI_http_b
    /\ document.buffers[2].uri = URI_file_b
    /\ loader_calls = <<[phase |-> "buffers", paths |-> <<URI_http_b, <<"b">>>>]>>
    /\ Len(document.images) = 1
    /\ document.images[1].uri = URI_https_i
    /\ Delivered(Err(Error("ExternalReferenceInSliceImport")))


\* The media type the classifier returns for the data URI of the image at
\* position i: the text between "data:" and the first ";base64,", and none
\* when the URI holds no ";base64,".
ReturnedMediaType(i) ==
    IF Contains(StripPrefix(document.images[i].uri, STR_data), STR_base64)
    THEN Some(BeforeSeparator(StripPrefix(document.images[i].uri, STR_data)))
    ELSE None

\* The hint the claim gives to format detection for the image at position i.
DetectionHint(i) ==
    IF IsDataUriImage(i) /\ IsSome(ReturnedMediaType(i))
    THEN ReturnedMediaType(i)
    ELSE document.images[i].mime_type

\* on_done received what detection and decoding give for the bytes under
\* the hint, as the only image of the model or as the error.
DeliveredDecoding(bytes, hint) ==
    IF load_image_from_buffer(bytes, hint).ok
    THEN /\ Len(on_done_calls) = 1 /\ on_done_calls[1].ok
         /\ on_done_calls[1].val.images =
                Insert(EmptyMap, 0, load_image_from_buffer(bytes, hint).val)
    ELSE Delivered(Err(load_image_from_buffer(bytes, hint).err))

\* C27: the hint handed to format detection for an image by data URI is the
\* media type the classifier returned when it returned one and the mime
\* type of the document otherwise; for an image fetched by path or taken
\* from a buffer view it is the mime type of the document. Stated of the
\* only image of a document once the import has its encoded bytes: on_done
\* receives what detection and decoding give under that hint.
C27_HintOfAnImage ==
    (/\ pc = "Done" /\ image_planning > 0 /\ Len(document.images) = 1
     /\ (document.images[1].source = "View" \/ IsSome(base))
     /\ ImageEncoded(1).ok) =>
        DeliveredDecoding(ImageEncoded(1).val, DetectionHint(1))

\* The data URI says image/png, the document says image/jpeg and the bytes
\* are a JPEG: the media type of the URI wins and the PNG decoder rejects
\* the bytes.
C27_Witness ==
    /\ pc = "Done"
    /\ Len(document.images) = 1
    /\ document.images[1].source = "Uri"
    /\ document.images[1].uri = STR_data \o STR_image_png \o STR_base64 \o B64_JPEG
    /\ document.images[1].mime_type = Some(STR_image_jpeg)
    /\ Delivered(Err(Error("Image")))

\* The data URI holds no ";base64,": the mime type of the document is the
\* hint, and the bytes that carry no signature decode under it.
C27_WitnessDocumentHint ==
    /\ pc = "Done"
    /\ Len(document.images) = 1
    /\ document.images[1].source = "Uri"
    /\ document.images[1].uri = STR_data \o B64_PNG
    /\ document.images[1].mime_type = Some(STR_image_png)
    /\ Len(on_done_calls) = 1 /\ on_done_calls[1].ok

====
